---- MODULE Spec2Model ----
(***************************************************************************)
(* A model of the QUIC frame codec (frames.go, package masterthesis) and   *)
(* of the learner's abstraction layer (adapter package) of quic-tracker.   *)
(*                                                                         *)
(* Bytes are integers 0..255, byte strings are sequences of bytes, and a   *)
(* bytes.Reader is a record [b |-> the bytes, i |-> how many were read].   *)
(* Text is a sequence of one-character strings.                            *)
(***************************************************************************)
EXTENDS Integers, Sequences, FiniteSets, TLC

(***************************************************************************)
(* Bounds of the model.                                                    *)
(***************************************************************************)
\* frames serialized into one packet
MaxFrames == 2
\* NewStreamFrame calls on one stream
MaxCalls == 3
\* bytes of one payload handed to NewStreamFrame
MaxPayload == 2
\* frame types added to the set of one symbol
MaxAdds == 3
\* symbols of one AbstractSet
MaxMembers == 2
\* symbols, and sets, of one side of an AbstractOrderedPair
MaxTrace == 1
\* AddIOs calls on one map
MaxInserts == 2

(***************************************************************************)
(* State.  Each component has its own variables; a component's actions     *)
(* leave the variables of the others unchanged.                            *)
(***************************************************************************)
\* the frame codec on one packet
VARIABLES sent, packet, recv, cpc

\* NewStreamFrame on one stream
VARIABLES stream, calls, total, last, prev

\* one symbol's way through text
VARIABLES sym, symText, origin, parsed, again

\* two symbols built and rendered
VARIABLES rPacketType, rHeader, addedA, addedB, textA, textB

\* one AbstractSet
VARIABLES newSet, aset, asetText

\* one AbstractConcreteMap
VARIABLES acm, inserts, lastInsert, mpc

codecVars == <<sent, packet, recv, cpc>>

streamVars == <<stream, calls, total, last, prev>>

symbolVars == <<sym, symText, origin, parsed, again>>

renderVars == <<rPacketType, rHeader, addedA, addedB, textA, textB>>

setVars == <<newSet, aset, asetText>>

mapVars == <<acm, inserts, lastInsert, mpc>>

vars == <<codecVars, streamVars, symbolVars, renderVars, setVars, mapVars>>

notCodec == <<streamVars, symbolVars, renderVars, setVars, mapVars>>

notStream == <<codecVars, symbolVars, renderVars, setVars, mapVars>>

notSymbol == <<codecVars, streamVars, renderVars, setVars, mapVars>>

notRender == <<codecVars, streamVars, symbolVars, setVars, mapVars>>

notSet == <<codecVars, streamVars, symbolVars, renderVars, mapVars>>

notMap == <<codecVars, streamVars, symbolVars, renderVars, setVars>>

(***************************************************************************)
(* The largest integer of the model checker.  Every value of a uint64      *)
(* field that does not fit is identified with Huge; the frames the model   *)
(* builds hold smaller values only.                                        *)
(***************************************************************************)
Huge == 2147483646 + 1

(***************************************************************************)
(* FrameType constants.                                                    *)
(***************************************************************************)
PaddingFrameType == 0
ResetStreamType == 1
ConnectionCloseType == 2
ApplicationCloseType == 3
MaxDataType == 4
MaxStreamDataType == 5
MaxStreamIdType == 6
PingType == 7
BlockedType == 8
StreamBlockedType == 9
StreamIdBlockedType == 10
NewConnectionIdType == 11
StopSendingType == 12
PongType == 13
AckType == 14
StreamType == 16

(***************************************************************************)
(* bytes.Reader and encoding/binary, as the codec uses them.               *)
(***************************************************************************)
NewReader(bytes) == [b |-> bytes, i |-> 0]

Remaining(r) == Len(r.b) - r.i

\* the n bytes after the cursor
Peek(r, n) == [k \in 1..n |-> r.b[r.i + k]]

Zeros(n) == [k \in 1..n |-> 0]

\* bytes.Reader.ReadByte: io.EOF (and the zero byte) when nothing is left
ReadByte(r) ==
    IF Remaining(r) > 0
    THEN [v |-> r.b[r.i + 1], err |-> FALSE, r |-> [r EXCEPT !.i = r.i + 1]]
    ELSE [v |-> 0, err |-> TRUE, r |-> r]

\* bytes.Reader.Read into a slice of n bytes: copies what is left
ReadInto(r, n) ==
    LET m == IF Remaining(r) < n THEN Remaining(r) ELSE n
    IN [v |-> Peek(r, m) \o Zeros(n - m), err |-> m < n,
        r |-> [r EXCEPT !.i = r.i + m]]

\* io.ReadFull of n bytes, as binary.Read does it: on a short source the
\* remaining bytes are consumed, an error is returned and nothing is decoded
ReadFull(r, n) ==
    IF Remaining(r) >= n
    THEN [v |-> Peek(r, n), err |-> FALSE, r |-> [r EXCEPT !.i = r.i + n]]
    ELSE [v |-> <<>>, err |-> TRUE, r |-> [r EXCEPT !.i = Len(r.b)]]

\* the big-endian value of a byte string, Huge when it does not fit
RECURSIVE BEValueFrom(_, _)
BEValueFrom(acc, bytes) ==
    IF bytes = <<>> THEN acc
    ELSE BEValueFrom(IF acc > (Huge - Head(bytes)) \div 256 THEN Huge
                     ELSE acc * 256 + Head(bytes), Tail(bytes))

BEValue(bytes) == BEValueFrom(0, bytes)

\* binary.Write of a uint16, big endian
U16BE(v) == <<(v \div 256) % 256, v % 256>>

\* binary.Write of a uint64, big endian
U64BE(v) ==
    <<0, 0, 0, 0, (v \div 16777216) % 256, (v \div 65536) % 256,
      (v \div 256) % 256, v % 256>>

\* binary.Read into a fixed-width integer of n bytes that holds old
BinaryRead(r, n, old) ==
    LET x == ReadFull(r, n)
    IN [v |-> IF x.err THEN old ELSE BEValue(x.v), err |-> x.err, r |-> x.r]

\* binary.Read into a byte array or slice of n bytes that holds zeros
BinaryReadBytes(r, n) ==
    LET x == ReadFull(r, n)
    IN [v |-> IF x.err THEN Zeros(n) ELSE x.v, err |-> x.err, r |-> x.r]

(***************************************************************************)
(* The QUIC variable-length integer: the two top bits of the first byte    *)
(* select a total length of 1, 2, 4 or 8 bytes.                            *)
(***************************************************************************)
WriteVarInt(v) ==
    IF v < 64 THEN <<v>>
    ELSE IF v < 16384 THEN <<64 + v \div 256, v % 256>>
    ELSE IF v < 1073741824
    THEN <<128 + v \div 16777216, (v \div 65536) % 256, (v \div 256) % 256, v % 256>>
    ELSE <<192, 0, 0, 0, (v \div 16777216) % 256, (v \div 65536) % 256,
           (v \div 256) % 256, v % 256>>

VarIntLen(first) ==
    IF first < 64 THEN 1 ELSE IF first < 128 THEN 2 ELSE IF first < 192 THEN 4 ELSE 8

ReadVarInt(r) ==
    LET f == ReadByte(r)
        n == VarIntLen(f.v)
        x == ReadFull(f.r, n - 1)
    IN IF f.err THEN [v |-> 0, err |-> TRUE, r |-> r]
       ELSE IF x.err THEN [v |-> 0, err |-> TRUE, r |-> x.r]
       ELSE [v |-> BEValue(<<f.v % 64>> \o x.v), err |-> FALSE, r |-> x.r]

(***************************************************************************)
(* Frames.  A frame is a record whose field type names its Go type; a      *)
(* decoder returns [frame, r, lost]: the frame, the reader after the call  *)
(* and whether the decoder discarded a read error on the way.              *)
(***************************************************************************)

\* ---- PaddingFrame ----
PaddingFrame_writeTo(frame) == <<PaddingFrameType>>

NewPaddingFrame(buffer) ==
    [frame |-> [type |-> "Padding"], r |-> ReadByte(buffer).r, lost |-> FALSE]

\* ---- ResetStream ----
ResetStream_writeTo(frame) ==
    <<ResetStreamType>> \o WriteVarInt(frame.streamId) \o U16BE(frame.errorCode)
        \o WriteVarInt(frame.finalOffset)

NewResetStream(buffer) ==
    LET t == ReadByte(buffer)
        a == ReadVarInt(t.r)
        b == BinaryRead(a.r, 2, 0)
        c == ReadVarInt(b.r)
    IN [frame |-> [type |-> "ResetStream", streamId |-> a.v, errorCode |-> b.v,
                   finalOffset |-> c.v],
        r |-> c.r, lost |-> a.err \/ b.err \/ c.err]

\* ---- ConnectionCloseFrame ----
ConnectionCloseFrame_writeTo(frame) ==
    <<ConnectionCloseType>> \o U16BE(frame.errorCode)
        \o WriteVarInt(frame.reasonPhraseLength)
        \o (IF frame.reasonPhraseLength > 0 THEN frame.reasonPhrase ELSE <<>>)

NewConnectionCloseFrame(buffer) ==
    LET t == ReadByte(buffer)
        a == BinaryRead(t.r, 2, 0)
        b == ReadVarInt(a.r)
        c == IF b.v > 0 THEN BinaryReadBytes(b.r, b.v)
             ELSE [v |-> <<>>, err |-> FALSE, r |-> b.r]
    IN [frame |-> [type |-> "ConnectionClose", errorCode |-> a.v,
                   reasonPhraseLength |-> b.v, reasonPhrase |-> c.v],
        r |-> c.r, lost |-> a.err \/ b.err \/ c.err]

\* ---- ApplicationCloseFrame ----
ApplicationCloseFrame_writeTo(frame) ==
    <<ApplicationCloseType>> \o U16BE(frame.errorCode)
        \o U64BE(frame.reasonPhraseLength)
        \o (IF frame.reasonPhraseLength > 0 THEN frame.reasonPhrase ELSE <<>>)

NewApplicationCloseFrame(buffer) ==
    LET t == ReadByte(buffer)
        a == BinaryRead(t.r, 2, 0)
        b == ReadVarInt(a.r)
        c == IF b.v > 0 THEN BinaryReadBytes(b.r, b.v)
             ELSE [v |-> <<>>, err |-> FALSE, r |-> b.r]
    IN [frame |-> [type |-> "ApplicationClose", errorCode |-> a.v,
                   reasonPhraseLength |-> b.v, reasonPhrase |-> c.v],
        r |-> c.r, lost |-> a.err \/ b.err \/ c.err]

\* ---- MaxDataFrame ----
MaxDataFrame_writeTo(frame) == <<MaxDataType>> \o WriteVarInt(frame.maximumData)

NewMaxDataFrame(buffer) ==
    LET t == ReadByte(buffer)
        a == ReadVarInt(t.r)
        b == BinaryRead(a.r, 8, a.v)
    IN [frame |-> [type |-> "MaxData", maximumData |-> b.v],
        r |-> b.r, lost |-> a.err \/ b.err]

\* ---- MaxStreamDataFrame ----
MaxStreamDataFrame_writeTo(frame) ==
    <<MaxStreamDataType>> \o WriteVarInt(frame.streamId)
        \o WriteVarInt(frame.maximumStreamData)

NewMaxStreamDataFrame(buffer) ==
    LET t == ReadByte(buffer)
        a == ReadVarInt(t.r)
        b == ReadVarInt(a.r)
    IN [frame |-> [type |-> "MaxStreamData", streamId |-> a.v,
                   maximumStreamData |-> b.v],
        r |-> b.r, lost |-> a.err \/ b.err]

\* ---- MaxStreamIdFrame ----
MaxStreamIdFrame_writeTo(frame) ==
    <<MaxStreamIdType>> \o WriteVarInt(frame.maximumStreamId)

NewMaxStreamIdFrame(buffer) ==
    LET t == ReadByte(buffer)
        a == ReadVarInt(t.r)
    IN [frame |-> [type |-> "MaxStreamId", maximumStreamId |-> a.v],
        r |-> a.r, lost |-> a.err]

\* ---- PingFrame ----
\* PingFrame.FrameType, the method writeTo calls on its PingFrame receiver
PingFrame_FrameType == PingType

PingFrame_writeTo(frame) ==
    <<PingFrame_FrameType, frame.length>>
        \o (IF frame.length > 0 THEN frame.data ELSE <<>>)

NewPingFrame(buffer) ==
    LET t == ReadByte(buffer)
        a == ReadByte(t.r)
        b == IF a.v > 0 THEN ReadInto(a.r, a.v)
             ELSE [v |-> <<>>, err |-> FALSE, r |-> a.r]
    IN [frame |-> [type |-> "Ping", length |-> a.v, data |-> b.v],
        r |-> b.r, lost |-> a.err \/ b.err]

\* ---- BlockedFrame ----
BlockedFrame_writeTo(frame) == <<BlockedType>> \o WriteVarInt(frame.offset)

NewBlockedFrame(buffer) ==
    LET t == ReadByte(buffer)
        a == ReadVarInt(t.r)
    IN [frame |-> [type |-> "Blocked", offset |-> a.v], r |-> a.r, lost |-> a.err]

\* ---- StreamBlockedFrame ----
StreamBlockedFrame_writeTo(frame) ==
    <<StreamBlockedType>> \o WriteVarInt(frame.streamId) \o WriteVarInt(frame.offset)

NewStreamBlockedFrame(buffer) ==
    LET t == ReadByte(buffer)
        a == ReadVarInt(t.r)
        b == ReadVarInt(a.r)
    IN [frame |-> [type |-> "StreamBlocked", streamId |-> a.v, offset |-> b.v],
        r |-> b.r, lost |-> a.err \/ b.err]

\* ---- StreamIdBlockedFrame ----
StreamIdBlockedFrame_writeTo(frame) ==
    <<StreamIdBlockedType>> \o WriteVarInt(frame.streamId)

NewStreamIdNeededFrame(buffer) ==
    LET t == ReadByte(buffer)
        a == ReadVarInt(t.r)
    IN [frame |-> [type |-> "StreamIdBlocked", streamId |-> a.v],
        r |-> a.r, lost |-> a.err]

\* ---- NewConnectionIdFrame ----
NewConnectionIdFrame_writeTo(frame) ==
    <<NewConnectionIdType>> \o WriteVarInt(frame.sequence)
        \o WriteVarInt(frame.connectionId) \o frame.statelessResetToken

NewNewConnectionIdFrame(buffer) ==
    LET t == ReadByte(buffer)
        a == ReadVarInt(t.r)
        b == ReadVarInt(a.r)
        c == BinaryReadBytes(b.r, 16)
    IN [frame |-> [type |-> "NewConnectionId", sequence |-> a.v,
                   connectionId |-> b.v, statelessResetToken |-> c.v],
        r |-> c.r, lost |-> a.err \/ b.err \/ c.err]

\* ---- StopSendingFrame ----
StopSendingFrame_writeTo(frame) ==
    <<StopSendingType>> \o WriteVarInt(frame.streamId) \o U16BE(frame.errorCode)

NewStopSendingFrame(buffer) ==
    LET t == ReadByte(buffer)
        a == ReadVarInt(t.r)
        b == BinaryRead(a.r, 2, 0)
    IN [frame |-> [type |-> "StopSending", streamId |-> a.v, errorCode |-> b.v],
        r |-> b.r, lost |-> a.err \/ b.err]

\* ---- PongFrame ----
\* PongFrame embeds PingFrame and defines FrameType only: its writeTo is the
\* promoted PingFrame.writeTo, run on the embedded PingFrame
PongFrame_writeTo(frame) == PingFrame_writeTo(frame)

NewPongFrame(buffer) ==
    LET t == ReadByte(buffer)
        a == ReadByte(t.r)
        b == IF a.v > 0 THEN ReadInto(a.r, a.v)
             ELSE [v |-> <<>>, err |-> FALSE, r |-> a.r]
    IN [frame |-> [type |-> "Pong", length |-> a.v, data |-> b.v],
        r |-> b.r, lost |-> a.err \/ b.err]

\* ---- AckFrame ----
RECURSIVE AckBlocksBytes(_, _)
AckBlocksBytes(ackBlocks, i) ==
    IF i > Len(ackBlocks) THEN <<>>
    ELSE (IF i > 1 THEN WriteVarInt(ackBlocks[i].gap) ELSE <<>>)
             \o WriteVarInt(ackBlocks[i].block) \o AckBlocksBytes(ackBlocks, i + 1)

AckFrame_writeTo(frame) ==
    <<AckType>> \o WriteVarInt(frame.largestAcknowledged) \o WriteVarInt(frame.ackDelay)
        \o WriteVarInt(frame.ackBlockCount) \o AckBlocksBytes(frame.ackBlocks, 1)

\* the loop of ReadAckFrame: n more (gap, block) pairs
RECURSIVE ReadAckBlocks(_, _)
ReadAckBlocks(r, n) ==
    IF n = 0 THEN [v |-> <<>>, err |-> FALSE, r |-> r]
    ELSE LET g == ReadVarInt(r)
             b == ReadVarInt(g.r)
             rest == ReadAckBlocks(b.r, n - 1)
         IN [v |-> <<[gap |-> g.v, block |-> b.v]>> \o rest.v,
             err |-> g.err \/ b.err \/ rest.err, r |-> rest.r]

ReadAckFrame(buffer) ==
    LET t == ReadByte(buffer)
        a == ReadVarInt(t.r)
        d == ReadVarInt(a.r)
        c == ReadVarInt(d.r)
        firstBlock == ReadVarInt(c.r)
        bs == ReadAckBlocks(firstBlock.r, c.v)
    IN [frame |-> [type |-> "Ack", largestAcknowledged |-> a.v, ackDelay |-> d.v,
                   ackBlockCount |-> c.v, ackBlocks |-> bs.v],
        r |-> bs.r,
        lost |-> a.err \/ d.err \/ c.err \/ firstBlock.err \/ bs.err]

NewAckFrame(largestAcknowledged, ackBlockCount) ==
    [type |-> "Ack", largestAcknowledged |-> largestAcknowledged, ackDelay |-> 0,
     ackBlockCount |-> 0, ackBlocks |-> <<[gap |-> 0, block |-> ackBlockCount]>>]

\* ---- StreamFrame ----
StreamFrame_writeTo(frame) ==
    <<StreamType + (IF frame.finBit THEN 1 ELSE 0) + (IF frame.lenBit THEN 2 ELSE 0)
        + (IF frame.offBit THEN 4 ELSE 0)>>
        \o WriteVarInt(frame.streamId)
        \o (IF frame.offBit THEN WriteVarInt(frame.offset) ELSE <<>>)
        \o (IF frame.lenBit THEN WriteVarInt(frame.length) ELSE <<>>)
        \o frame.streamData

ReadStreamFrame(buffer) ==
    LET t == ReadByte(buffer)
        finBit == t.v % 2 = 1
        lenBit == (t.v \div 2) % 2 = 1
        offBit == (t.v \div 4) % 2 = 1
        a == ReadVarInt(t.r)
        o == IF offBit THEN ReadVarInt(a.r) ELSE [v |-> 0, err |-> FALSE, r |-> a.r]
        l == IF lenBit THEN ReadVarInt(o.r) ELSE [v |-> 0, err |-> FALSE, r |-> o.r]
    IN [frame |-> [type |-> "Stream", finBit |-> finBit, lenBit |-> lenBit,
                   offBit |-> offBit, streamId |-> a.v, offset |-> o.v,
                   length |-> l.v, streamData |-> <<>>],
        r |-> l.r, lost |-> a.err \/ o.err \/ l.err]

(***************************************************************************)
(* Frame.FrameType and Frame.writeTo, by the frame's Go type.              *)
(***************************************************************************)
FrameType(frame) ==
    CASE frame.type = "Padding" -> PaddingFrameType
      [] frame.type = "ResetStream" -> ResetStreamType
      [] frame.type = "ConnectionClose" -> ConnectionCloseType
      [] frame.type = "ApplicationClose" -> ApplicationCloseType
      [] frame.type = "MaxData" -> MaxDataType
      [] frame.type = "MaxStreamData" -> MaxStreamDataType
      [] frame.type = "MaxStreamId" -> MaxStreamIdType
      [] frame.type = "Ping" -> PingType
      [] frame.type = "Blocked" -> BlockedType
      [] frame.type = "StreamBlocked" -> StreamBlockedType
      [] frame.type = "StreamIdBlocked" -> StreamIdBlockedType
      [] frame.type = "NewConnectionId" -> NewConnectionIdType
      [] frame.type = "StopSending" -> StopSendingType
      [] frame.type = "Pong" -> PongType
      [] frame.type = "Ack" -> AckType
      [] frame.type = "Stream" -> StreamType

writeTo(frame) ==
    CASE frame.type = "Padding" -> PaddingFrame_writeTo(frame)
      [] frame.type = "ResetStream" -> ResetStream_writeTo(frame)
      [] frame.type = "ConnectionClose" -> ConnectionCloseFrame_writeTo(frame)
      [] frame.type = "ApplicationClose" -> ApplicationCloseFrame_writeTo(frame)
      [] frame.type = "MaxData" -> MaxDataFrame_writeTo(frame)
      [] frame.type = "MaxStreamData" -> MaxStreamDataFrame_writeTo(frame)
      [] frame.type = "MaxStreamId" -> MaxStreamIdFrame_writeTo(frame)
      [] frame.type = "Ping" -> PingFrame_writeTo(frame)
      [] frame.type = "Blocked" -> BlockedFrame_writeTo(frame)
      [] frame.type = "StreamBlocked" -> StreamBlockedFrame_writeTo(frame)
      [] frame.type = "StreamIdBlocked" -> StreamIdBlockedFrame_writeTo(frame)
      [] frame.type = "NewConnectionId" -> NewConnectionIdFrame_writeTo(frame)
      [] frame.type = "StopSending" -> StopSendingFrame_writeTo(frame)
      [] frame.type = "Pong" -> PongFrame_writeTo(frame)
      [] frame.type = "Ack" -> AckFrame_writeTo(frame)
      [] frame.type = "Stream" -> StreamFrame_writeTo(frame)

(***************************************************************************)
(* NewFrame: the dispatcher.  Its result is nil (the source is exhausted), *)
(* a panic (no case matches) or the frame of the decoder it selects.       *)
(***************************************************************************)
Decoded(x) == [kind |-> "frame", frame |-> x.frame, r |-> x.r, lost |-> x.lost]

NewFrame(buffer) ==
    LET t == ReadByte(buffer)
        frameType == t.v
    IN IF t.err THEN [kind |-> "nil", r |-> buffer]
       ELSE CASE frameType = PaddingFrameType -> Decoded(NewPaddingFrame(buffer))
              [] frameType = ResetStreamType -> Decoded(NewResetStream(buffer))
              [] frameType = ConnectionCloseType -> Decoded(NewConnectionCloseFrame(buffer))
              [] frameType = ApplicationCloseType -> Decoded(NewApplicationCloseFrame(buffer))
              [] frameType = MaxDataType -> Decoded(NewMaxDataFrame(buffer))
              [] frameType = MaxStreamDataType -> Decoded(NewMaxStreamDataFrame(buffer))
              [] frameType = MaxStreamIdType -> Decoded(NewMaxStreamIdFrame(buffer))
              [] frameType = PingType -> Decoded(NewPingFrame(buffer))
              [] frameType = BlockedType -> Decoded(NewBlockedFrame(buffer))
              [] frameType = StreamBlockedType -> Decoded(NewStreamBlockedFrame(buffer))
              [] frameType = StreamIdBlockedType -> Decoded(NewStreamIdNeededFrame(buffer))
              [] frameType = NewConnectionIdType -> Decoded(NewNewConnectionIdFrame(buffer))
              [] frameType = StopSendingType -> Decoded(NewStopSendingFrame(buffer))
              [] frameType = AckType -> Decoded(ReadAckFrame(buffer))
              [] (frameType \div StreamType) % 2 = 1 -> Decoded(ReadStreamFrame(buffer))
              [] OTHER -> [kind |-> "panic", msg |-> "Unknown frame type", r |-> buffer]

(***************************************************************************)
(* State.                                                                  *)
(*   sent, packet, recv, cpc: the frames written into one packet, the      *)
(*     packet's bytes, the results of the NewFrame calls made on it so     *)
(*     far (each with the offsets it started and ended at) and the state   *)
(*     of the packet: "build", "decode", or "halt" once NewFrame returned  *)
(*     nil or panicked.                                                    *)
(***************************************************************************)

(***************************************************************************)
(* The frames the codec is run on: every variant, with field values that   *)
(* take each varint width, empty and non-empty byte strings and every      *)
(* combination of the Stream flags.                                        *)
(***************************************************************************)
VarIntValues == {0, 63, 300, 16384, 1073741824}

StreamIds == {4, 300}

ErrorCodes == {0, 7}

ByteStrings == {<<>>, <<97>>, <<97, 98>>}

Tokens == {Zeros(16), [k \in 1..16 |-> k]}

AckFrames ==
    {NewAckFrame(10, b) : b \in {0, 3}}
        \cup {[type |-> "Ack", largestAcknowledged |-> 300, ackDelay |-> d,
               ackBlockCount |-> 1,
               ackBlocks |-> <<[gap |-> 0, block |-> 2], [gap |-> 1, block |-> 5]>>]
              : d \in {0, 64}}

StreamFrames ==
    {[type |-> "Stream", finBit |-> f, lenBit |-> l, offBit |-> o, streamId |-> 4,
      offset |-> IF o THEN 300 ELSE 0, length |-> IF l THEN Len(d) ELSE 0,
      streamData |-> d]
     : f \in BOOLEAN, l \in BOOLEAN, o \in BOOLEAN, d \in {<<>>, <<97, 98>>}}

Frames ==
    {[type |-> "Padding"]}
        \cup {[type |-> "ResetStream", streamId |-> s, errorCode |-> e, finalOffset |-> o]
              : s \in StreamIds, e \in ErrorCodes, o \in {0, 300}}
        \cup {[type |-> "ConnectionClose", errorCode |-> 7,
               reasonPhraseLength |-> Len(p), reasonPhrase |-> p] : p \in ByteStrings}
        \cup {[type |-> "ApplicationClose", errorCode |-> 7,
               reasonPhraseLength |-> Len(p), reasonPhrase |-> p] : p \in ByteStrings}
        \cup {[type |-> "MaxData", maximumData |-> v] : v \in VarIntValues}
        \cup {[type |-> "MaxStreamData", streamId |-> s, maximumStreamData |-> v]
              : s \in StreamIds, v \in {0, 16384}}
        \cup {[type |-> "MaxStreamId", maximumStreamId |-> v] : v \in VarIntValues}
        \cup {[type |-> "Ping", length |-> Len(d), data |-> d] : d \in ByteStrings}
        \cup {[type |-> "Blocked", offset |-> v] : v \in VarIntValues}
        \cup {[type |-> "StreamBlocked", streamId |-> s, offset |-> v]
              : s \in StreamIds, v \in {0, 16384}}
        \cup {[type |-> "StreamIdBlocked", streamId |-> s] : s \in StreamIds}
        \cup {[type |-> "NewConnectionId", sequence |-> q, connectionId |-> 5,
               statelessResetToken |-> t] : q \in {0, 1}, t \in Tokens}
        \cup {[type |-> "StopSending", streamId |-> s, errorCode |-> e]
              : s \in StreamIds, e \in ErrorCodes}
        \cup {[type |-> "Pong", length |-> Len(d), data |-> d] : d \in ByteStrings}
        \cup AckFrames
        \cup StreamFrames

\* the bytes of the frames of a sequence, written back to back
RECURSIVE Encode(_)
Encode(frames) ==
    IF frames = <<>> THEN <<>> ELSE writeTo(Head(frames)) \o Encode(Tail(frames))

(***************************************************************************)
(* The codec's operations on one packet.                                   *)
(***************************************************************************)
CodecInit ==
    /\ sent = <<>>
    /\ packet = <<>>
    /\ recv = <<>>
    /\ cpc = "build"

\* frame.writeTo(buffer), appending to the packet
WriteFrame(frame) ==
    /\ cpc = "build"
    /\ packet = Encode(sent)
    /\ Len(sent) < MaxFrames
    /\ sent' = Append(sent, frame)
    /\ packet' = packet \o writeTo(frame)
    /\ UNCHANGED <<recv, cpc>>
    /\ UNCHANGED notCodec

\* the packet arrives cut short by one more byte
Truncate ==
    /\ cpc = "build"
    /\ Len(sent) = 1
    /\ packet # <<>>
    /\ packet' = SubSeq(packet, 1, Len(packet) - 1)
    /\ UNCHANGED <<sent, recv, cpc>>
    /\ UNCHANGED notCodec

\* a packet whose only byte is b arrives
Receive(b) ==
    /\ cpc = "build"
    /\ sent = <<>>
    /\ packet = <<>>
    /\ packet' = <<b>>
    /\ UNCHANGED <<sent, recv, cpc>>
    /\ UNCHANGED notCodec

\* the offset the next NewFrame call starts at
Cursor == IF recv = <<>> THEN 0 ELSE recv[Len(recv)].r.i

\* one NewFrame call on the packet's reader
Decode ==
    /\ cpc \in {"build", "decode"}
    /\ LET res == NewFrame([b |-> packet, i |-> Cursor])
       IN /\ recv' = Append(recv, [from |-> Cursor] @@ res)
          /\ cpc' = IF res.kind = "frame" THEN "decode" ELSE "halt"
    /\ UNCHANGED <<sent, packet>>
    /\ UNCHANGED notCodec

CodecNext ==
    \/ \E frame \in Frames : WriteFrame(frame)
    \/ Truncate
    \/ \E b \in 0..255 : Receive(b)
    \/ Decode

(***************************************************************************)
(* NewStreamFrame: an outbound Stream frame for a payload, built from the  *)
(* stream's write cursor, which it advances.  The result is the frame and  *)
(* the stream after the call.                                              *)
(*   stream: the Stream the frames are made for; calls: the calls made;    *)
(*   total: the sum of the lengths of the payloads handed over so far;     *)
(*   last, prev: the last call and the one before it (<<>> when there is   *)
(*   none), each with its payload, the cursor before it and its frame.     *)
(***************************************************************************)

\* the slip of assigning the length to the cursor instead of adding it
NewStreamFrame_AssignsCursor(streamId, s, data, finBit) ==
    [frame |-> [type |-> "Stream", finBit |-> finBit, lenBit |-> TRUE,
                offBit |-> s.writeOffset > 0, streamId |-> 0,
                offset |-> s.writeOffset, length |-> Len(data), streamData |-> data],
     stream |-> [s EXCEPT !.writeOffset = Len(data)]]

NewStreamFrame(streamId, s, data, finBit) ==
    LET offset == s.writeOffset
        length == Len(data)
    IN [frame |-> [type |-> "Stream", finBit |-> finBit, lenBit |-> TRUE,
                   offBit |-> offset > 0, streamId |-> 0, offset |-> offset,
                   length |-> length, streamData |-> data],
        stream |-> [s EXCEPT !.writeOffset = s.writeOffset + length]]

PayloadBytes == {97, 98}

\* the payloads of at most MaxPayload bytes
Payloads == UNION {[1..n -> PayloadBytes] : n \in 0..MaxPayload}

StreamInit ==
    /\ stream = [writeOffset |-> 0]
    /\ calls = 0
    /\ total = 0
    /\ last = <<>>
    /\ prev = <<>>

\* one NewStreamFrame(streamId, stream, data, finBit) call
CallNewStreamFrame(streamId, data, finBit) ==
    /\ calls < MaxCalls
    /\ LET res == NewStreamFrame(streamId, stream, data, finBit)
       IN /\ stream' = res.stream
          /\ last' = <<[data |-> data, before |-> stream.writeOffset,
                        frame |-> res.frame]>>
    /\ prev' = last
    /\ calls' = calls + 1
    /\ total' = total + Len(data)
    /\ UNCHANGED notStream

StreamNext ==
    \E streamId \in StreamIds, data \in Payloads, finBit \in BOOLEAN :
        CallNewStreamFrame(streamId, data, finBit)

(***************************************************************************)
(* Text.  A Go string is a sequence of one-character strings; the order of *)
(* two texts is the order of their bytes, as sort.Strings compares them.   *)
(***************************************************************************)
UpperChars ==
    {"A", "B", "C", "D", "E", "F", "G", "H", "I", "J", "K", "L", "M", "N", "O", "P",
     "Q", "R", "S", "T", "U", "V", "W", "X", "Y", "Z"}

DigitChars == {"0", "1", "2", "3", "4", "5", "6", "7", "8", "9"}

LowerChars ==
    {"a", "b", "c", "d", "e", "f", "g", "h", "i", "j", "k", "l", "m", "n", "o", "p",
     "q", "r", "s", "t", "u", "v", "w", "x", "y", "z"}

\* the characters of the texts of the model, in the order of their bytes
CharOrder ==
    <<"(", ")", ",", "0", "1", "2", "3", "4", "5", "6", "7", "8", "9",
      "A", "B", "C", "D", "E", "F", "G", "H", "I", "J", "K", "L", "M", "N", "O", "P",
      "Q", "R", "S", "T", "U", "V", "W", "X", "Y", "Z", "[", "]", "_",
      "a", "b", "c", "d", "e", "f", "g", "h", "i", "j", "k", "l", "m", "n", "o", "p",
      "q", "r", "s", "t", "u", "v", "w", "x", "y", "z">>

Ord(c) == CHOOSE i \in 1..Len(CharOrder) : CharOrder[i] = c

\* a < b as Go compares strings
RECURSIVE TextLess(_, _)
TextLess(a, b) ==
    IF b = <<>> THEN FALSE
    ELSE IF a = <<>> THEN TRUE
    ELSE IF Head(a) = Head(b) THEN TextLess(Tail(a), Tail(b))
    ELSE Ord(Head(a)) < Ord(Head(b))

\* sort.Strings
RECURSIVE InsertSorted(_, _)
InsertSorted(sorted, t) ==
    IF sorted = <<>> THEN <<t>>
    ELSE IF TextLess(t, Head(sorted)) THEN <<t>> \o sorted
    ELSE <<Head(sorted)>> \o InsertSorted(Tail(sorted), t)

RECURSIVE SortStrings(_)
SortStrings(texts) ==
    IF texts = <<>> THEN <<>>
    ELSE InsertSorted(SortStrings(Tail(texts)), Head(texts))

\* strings.Join
RECURSIVE Join(_, _)
Join(texts, sep) ==
    IF texts = <<>> THEN <<>>
    ELSE IF Len(texts) = 1 THEN texts[1]
    ELSE texts[1] \o sep \o Join(Tail(texts), sep)

\* strings.Split on a one-character separator
RECURSIVE SplitFrom(_, _, _)
SplitFrom(t, sep, field) ==
    IF t = <<>> THEN <<field>>
    ELSE IF Head(t) = sep THEN <<field>> \o SplitFrom(Tail(t), sep, <<>>)
    ELSE SplitFrom(Tail(t), sep, Append(field, Head(t)))

Split(t, sep) == SplitFrom(t, sep, <<>>)

AllIn(t, chars) == \A k \in 1..Len(t) : t[k] \in chars

Range(f) == {f[k] : k \in DOMAIN f}

\* the orders a set's ToSlice may return its elements in
Slices(set) == {p \in [1..Cardinality(set) -> set] : Range(p) = set}

(***************************************************************************)
(* Packet types, QUIC versions and frame types of the learner's alphabet.  *)
(* A uint32 is the pair of its 16-bit halves <<hi, lo>>; a pointer is a    *)
(* sequence of no element (nil) or one.                                    *)
(***************************************************************************)
PacketTypes ==
    {"VersionNegotiation", "Initial", "Retry", "Handshake", "ZeroRTTProtected",
     "ShortHeaderPacket"}

\* the zero value of PacketType, which a lookup of a missing map key returns
ZeroPacketType == "PacketType(0)"

packetTypeToString ==
    [p \in PacketTypes |->
        CASE p = "VersionNegotiation" -> <<"V", "E", "R", "N", "E", "G">>
          [] p = "Initial" -> <<"I", "N", "I", "T", "I", "A", "L">>
          [] p = "Retry" -> <<"R", "E", "T", "R", "Y">>
          [] p = "Handshake" -> <<"H", "A", "N", "D", "S", "H", "A", "K", "E">>
          [] p = "ZeroRTTProtected" -> <<"Z", "E", "R", "O">>
          [] p = "ShortHeaderPacket" -> <<"S", "H", "O", "R", "T">>]

stringToPacketType(name) ==
    CASE name = <<"V", "E", "R", "N", "E", "G">> -> "VersionNegotiation"
      [] name = <<"I", "N", "I", "T", "I", "A", "L">> -> "Initial"
      [] name = <<"R", "E", "T", "R", "Y">> -> "Retry"
      [] name = <<"H", "A", "N", "D", "S", "H", "A", "K", "E">> -> "Handshake"
      [] name = <<"Z", "E", "R", "O">> -> "ZeroRTTProtected"
      [] name = <<"S", "H", "O", "R", "T">> -> "ShortHeaderPacket"
      [] OTHER -> ZeroPacketType

\* the frame types of the alphabet and their names
AlphabetFrameTypes == {"AckType", "CryptoType", "PingType"}

FrameType_String(frameType) ==
    CASE frameType = "AckType" -> <<"A", "C", "K">>
      [] frameType = "CryptoType" -> <<"C", "R", "Y", "P", "T", "O">>
      [] frameType = "PingType" -> <<"P", "I", "N", "G">>
      [] OTHER -> <<"U", "N", "K", "N", "O", "W", "N">>

FrameTypeFromString(name) ==
    CASE name = <<"A", "C", "K">> -> "AckType"
      [] name = <<"C", "R", "Y", "P", "T", "O">> -> "CryptoType"
      [] name = <<"P", "I", "N", "G">> -> "PingType"
      [] OTHER -> "FrameType(0)"

\* qt.Uint32ToBEBytes
Uint32ToBEBytes(v) == <<v[1] \div 256, v[1] % 256, v[2] \div 256, v[2] % 256>>

HexDigits == <<"0", "1", "2", "3", "4", "5", "6", "7", "8", "9", "a", "b", "c", "d", "e", "f">>

HexChars == Range(HexDigits)

\* fmt.Sprintf("%#x", bytes): 0x and two lower-case digits per byte
RECURSIVE HexOfBytes(_)
HexOfBytes(bytes) ==
    IF bytes = <<>> THEN <<>>
    ELSE <<HexDigits[(Head(bytes) \div 16) + 1], HexDigits[(Head(bytes) % 16) + 1]>>
             \o HexOfBytes(Tail(bytes))

SprintfHex(bytes) == <<"0", "x">> \o HexOfBytes(bytes)

UpperHexDigits == <<"A", "B", "C", "D", "E", "F">>

HexValue(c) ==
    IF c \in Range(UpperHexDigits) THEN 9 + (CHOOSE i \in 1..6 : UpperHexDigits[i] = c)
    ELSE (CHOOSE i \in 1..16 : HexDigits[i] = c) - 1

RECURSIVE StripZeros(_)
StripZeros(t) == IF t # <<>> /\ Head(t) = "0" THEN StripZeros(Tail(t)) ELSE t

\* strconv.ParseUint(t, 16, 32): an error for no digit, a character that is
\* no hexadecimal digit or a value of more than 32 bits
ParseUint(t) ==
    IF t = <<>> \/ ~AllIn(t, HexChars \cup Range(UpperHexDigits))
    THEN [v |-> <<0, 0>>, err |-> TRUE]
    ELSE LET s == StripZeros(t)
             d == [k \in 1..(8 - Len(s)) |-> "0"] \o s
             n == [k \in 1..8 |-> HexValue(d[k])]
         IN IF Len(s) > 8 THEN [v |-> <<0, 0>>, err |-> TRUE]
            ELSE [v |-> <<((n[1] * 16 + n[2]) * 16 + n[3]) * 16 + n[4],
                          ((n[5] * 16 + n[6]) * 16 + n[7]) * 16 + n[8]>>,
                  err |-> FALSE]

(***************************************************************************)
(* HeaderOptions and AbstractSymbol.                                       *)
(***************************************************************************)
HeaderOptions_String(ho) ==
    IF ho.QUICVersion # <<>> THEN SprintfHex(Uint32ToBEBytes(ho.QUICVersion[1]))
    ELSE <<>>

\* as.frameTypes.ToSlice() returns the set's elements in some order: slice
FrameStrings(slice) == [k \in 1..Len(slice) |-> FrameType_String(slice[k])]

\* the slip of leaving out sort.Strings
AbstractSymbol_String_Unsorted(as, slice) ==
    packetTypeToString[as.packetType] \o <<"(">> \o HeaderOptions_String(as.headerOptions)
        \o <<")", "[">> \o Join(FrameStrings(slice), <<",">>) \o <<"]">>

AbstractSymbol_String(as, slice) ==
    LET packetType == packetTypeToString[as.packetType]
        headerOptions == HeaderOptions_String(as.headerOptions)
        frameStrings == SortStrings(FrameStrings(slice))
        frameTypes == Join(frameStrings, <<",">>)
    IN packetType \o <<"(">> \o headerOptions \o <<")", "[">> \o frameTypes \o <<"]">>

NewAbstractSymbol(packetType, headerOptions, frameTypes) ==
    [packetType |-> packetType, headerOptions |-> headerOptions,
     frameTypes |-> frameTypes]

\* the length of the longest prefix of t made of the characters chars
RECURSIVE PrefixLen(_, _)
PrefixLen(t, chars) ==
    IF t # <<>> /\ Head(t) \in chars THEN 1 + PrefixLen(Tail(t), chars) ELSE 0

Drop(t, n) == SubSeq(t, n + 1, Len(t))

\* FindStringSubmatch of ^([A-Z]+)(\(([0-9a-zx]+)\))?\[([A-Z,]+)\]$ :
\* <<>> (nil) when the text does not match, else the match and its four
\* groups (element k + 1 is Go's subgroups[k])
FindStringSubmatch(message) ==
    LET n == PrefixLen(message, UpperChars)
        rest == Drop(message, n)
        h == IF rest # <<>> /\ Head(rest) = "(" THEN PrefixLen(Tail(rest), DigitChars \cup LowerChars)
             ELSE 0
        hasHeader == /\ h > 0
                     /\ Len(rest) >= h + 2
                     /\ rest[h + 2] = ")"
        list == IF hasHeader THEN Drop(rest, h + 2) ELSE rest
        inner == SubSeq(list, 2, Len(list) - 1)
    IN IF /\ n > 0
          /\ Len(list) >= 3
          /\ list[1] = "["
          /\ list[Len(list)] = "]"
          /\ AllIn(inner, UpperChars \cup {","})
       THEN <<message, SubSeq(message, 1, n),
              IF hasHeader THEN SubSeq(rest, 1, h + 2) ELSE <<>>,
              IF hasHeader THEN SubSeq(rest, 2, h + 1) ELSE <<>>,
              inner>>
       ELSE <<>>

\* the result is a panic of the Go runtime or the symbol returned
NewAbstractSymbolFromString(message) ==
    LET subgroups == FindStringSubmatch(message)
        packetType == stringToPacketType(subgroups[2])
        headerOptionSlice == Split(subgroups[4], ",")
        parsedVersion == ParseUint(Drop(headerOptionSlice[1], 2))
        headerOptions ==
            IF subgroups[4] # <<>> /\ ~parsedVersion.err
            THEN [QUICVersion |-> <<parsedVersion.v>>]
            ELSE [QUICVersion |-> <<>>]
        frameSplice == Split(subgroups[5], ",")
        frameTypes == {FrameTypeFromString(frameSplice[k]) : k \in 1..Len(frameSplice)}
    IN IF subgroups = <<>>
       THEN [kind |-> "panic", msg |-> "index out of range"]
       ELSE IF subgroups[4] # <<>> /\ Len(headerOptionSlice[1]) < 2
       THEN [kind |-> "panic", msg |-> "slice bounds out of range"]
       ELSE [kind |-> "symbol",
             symbol |-> NewAbstractSymbol(packetType, headerOptions, frameTypes)]

(***************************************************************************)
(* AbstractSet, AbstractOrderedPair and AbstractConcreteMap.  An           *)
(* AbstractSet is the record of its embedded set, [Set |-> the symbols].   *)
(* A call that may panic returns [kind |-> "panic", ...] or its value      *)
(* under another kind.  order gives, for each set of frame types, the      *)
(* order in which ToSlice returns it.                                      *)
(***************************************************************************)
\* mapset.NewSet().(AbstractSet): the set the library returns is not of the
\* type AbstractSet, so the assertion panics
NewAbstractSet ==
    [kind |-> "panic", msg |-> "interface conversion: interface is not AbstractSet"]

\* AbstractSet{mapset.NewSet(members...)}, the composite literal
AbstractSetOf(members) == [Set |-> members]

\* stringSlice is empty and is indexed, not appended to: the first element
\* of a non-empty set panics
AbstractSet_String(as, order) ==
    IF Cardinality(as.Set) = 0 THEN [kind |-> "text", text |-> <<"[", "]">>]
    ELSE [kind |-> "panic", msg |-> "index out of range [0] with length 0"]

RECURSIVE SetStrings(_, _)
SetStrings(abstractSets, order) ==
    IF abstractSets = <<>> THEN [kind |-> "text", texts |-> <<>>]
    ELSE LET first == AbstractSet_String(Head(abstractSets), order)
             rest == SetStrings(Tail(abstractSets), order)
         IN IF first.kind = "panic" THEN first
            ELSE IF rest.kind = "panic" THEN rest
            ELSE [kind |-> "text", texts |-> <<first.text>> \o rest.texts]

AbstractOrderedPair_String(ct, order) ==
    LET aiStringSlice ==
            [k \in 1..Len(ct.abstractInputs) |->
                AbstractSymbol_String(ct.abstractInputs[k],
                                      order[ct.abstractInputs[k].frameTypes])]
        aiString == <<"[">> \o Join(aiStringSlice, <<",">>) \o <<"]">>
        aoStringSlice == SetStrings(ct.abstractOutputs, order)
        aoString == <<"[">> \o Join(aoStringSlice.texts, <<",">>) \o <<"]">>
    IN IF aoStringSlice.kind = "panic" THEN aoStringSlice
       ELSE [kind |-> "text", text |-> <<"(">> \o aiString \o <<",">> \o aoString \o <<")">>]

NewAbstractConcreteMap == <<>>

\* (*acm)[abstractOrderedPair.String()] = concreteOrderedPair
AddOPs(m, abstractOrderedPair, concreteOrderedPair, order) ==
    LET key == AbstractOrderedPair_String(abstractOrderedPair, order)
    IN IF key.kind = "panic" THEN [kind |-> "panic", msg |-> key.msg, acm |-> m]
       ELSE [kind |-> "done",
             acm |-> [k \in DOMAIN m \cup {key.text} |->
                         IF k = key.text THEN concreteOrderedPair ELSE m[k]]]

AddIOs(m, abstractInputs, abstractOutputs, concreteInputs, concreteOutputs, order) ==
    LET abstractOP == [abstractInputs |-> abstractInputs,
                       abstractOutputs |-> abstractOutputs]
        concreteOP == [concreteInputs |-> concreteInputs,
                       concreteOutputs |-> concreteOutputs]
    IN AddOPs(m, abstractOP, concreteOP, order)

\* (*acm)[abstractOrderedPair.String()], the lookup a caller makes
Lookup(m, abstractOrderedPair, order) ==
    LET key == AbstractOrderedPair_String(abstractOrderedPair, order)
    IN IF key.kind = "panic" THEN [kind |-> "panic", msg |-> key.msg]
       ELSE IF key.text \in DOMAIN m THEN [kind |-> "found", value |-> m[key.text]]
       ELSE [kind |-> "absent"]

(***************************************************************************)
(* One symbol's way through text.                                          *)
(*   sym: the symbol rendered (<<>> when the text did not come from one);  *)
(*   symText: the text; origin: "none", "rendered" (the text is the        *)
(*   String of sym) or "input" (any other text); parsed: the result of     *)
(*   NewAbstractSymbolFromString(symText), once called; again: the String  *)
(*   of the symbol parsed, once called.                                    *)
(***************************************************************************)

\* 0xff00001d and 0x00000001
Versions == {<<65280, 29>>, <<0, 1>>}

Symbols ==
    {NewAbstractSymbol(p, [QUICVersion |-> v], f) :
        p \in PacketTypes, v \in {<<>>} \cup {<<x>> : x \in Versions},
        f \in SUBSET AlphabetFrameTypes}

\* texts that are not the String of a symbol
OtherTexts ==
    {<<"F", "O", "O", "(", "0", "x", "f", "f", "0", "0", "0", "0", "1", "d", ")", "[", "A", "C", "K", "]">>, <<"I", "N", "I", "T", "I", "A", "L", "(", "z", "z", ")", "[", "A", "C", "K", "]">>, <<"I", "N", "I", "T", "I", "A", "L", "(", "z", ")", "[", "A", "C", "K", "]">>,
     <<"i", "n", "i", "t", "i", "a", "l", "(", "0", "x", "f", "f", "0", "0", "0", "0", "1", "d", ")", "[", "A", "C", "K", "]">>, <<"I", "N", "I", "T", "I", "A", "L", "(", "0", "x", "f", "f", "0", "0", "0", "0", "1", "d", ")", "A", "C", "K">>, <<"S", "H", "O", "R", "T", "[", "A", "C", "K", "]">>,
     <<"I", "N", "I", "T", "I", "A", "L", "(", "0", "x", "1", "f", "f", "0", "0", "0", "0", "1", "d", ")", "[", "A", "C", "K", "]">>}

SymbolInit ==
    /\ sym = <<>>
    /\ symText = <<>>
    /\ origin = "none"
    /\ parsed = <<>>
    /\ again = <<>>

\* as.String(), the set's ToSlice returning slice
RenderSymbol(as, slice) ==
    /\ origin = "none"
    /\ sym' = <<as>>
    /\ symText' = AbstractSymbol_String(as, slice)
    /\ origin' = "rendered"
    /\ UNCHANGED <<parsed, again>>
    /\ UNCHANGED notSymbol

\* a text from elsewhere (a log, a learner's input file)
ReadText(text) ==
    /\ origin = "none"
    /\ symText' = text
    /\ origin' = "input"
    /\ UNCHANGED <<sym, parsed, again>>
    /\ UNCHANGED notSymbol

\* the text arrives cut short by one more character
CutText ==
    /\ origin # "none"
    /\ parsed = <<>>
    /\ symText # <<>>
    /\ symText' = SubSeq(symText, 1, Len(symText) - 1)
    /\ origin' = "input"
    /\ sym' = <<>>
    /\ UNCHANGED <<parsed, again>>
    /\ UNCHANGED notSymbol

\* NewAbstractSymbolFromString(symText)
ParseText ==
    /\ origin # "none"
    /\ parsed = <<>>
    /\ parsed' = <<NewAbstractSymbolFromString(symText)>>
    /\ UNCHANGED <<sym, symText, origin, again>>
    /\ UNCHANGED notSymbol

\* String() of the symbol parsed
RenderAgain(slice) ==
    /\ parsed # <<>>
    /\ again = <<>>
    /\ parsed[1].kind = "symbol"
    /\ parsed[1].symbol.packetType \in PacketTypes
    /\ slice \in Slices(parsed[1].symbol.frameTypes)
    /\ again' = <<AbstractSymbol_String(parsed[1].symbol, slice)>>
    /\ UNCHANGED <<sym, symText, origin, parsed>>
    /\ UNCHANGED notSymbol

SymbolNext ==
    \/ \E as \in Symbols : \E slice \in Slices(as.frameTypes) : RenderSymbol(as, slice)
    \/ \E text \in OtherTexts : ReadText(text)
    \/ CutText
    \/ ParseText
    \/ \E slice \in Slices(AlphabetFrameTypes) \cup
           UNION {Slices(f) : f \in SUBSET AlphabetFrameTypes} : RenderAgain(slice)

(***************************************************************************)
(* Two symbols of one packet type and header, each built by adding frame   *)
(* types to its set and then rendered.                                     *)
(*   rPacketType, rHeader: their packet type and header options;           *)
(*   addedA, addedB: the frame types added to each, in the order added;    *)
(*   textA, textB: the String of each, once called (<<>> before).          *)
(***************************************************************************)

RenderIdle ==
    /\ rPacketType = "Initial"
    /\ rHeader = [QUICVersion |-> <<>>]
    /\ addedA = <<>>
    /\ addedB = <<>>
    /\ textA = <<>>
    /\ textB = <<>>

\* a short-header packet has no QUIC version, the others have 0xff00001d
RenderInit ==
    /\ rPacketType \in PacketTypes
    /\ rHeader = IF rPacketType = "ShortHeaderPacket" THEN [QUICVersion |-> <<>>]
                 ELSE [QUICVersion |-> <<<<65280, 29>>>>]
    /\ addedA = <<>>
    /\ addedB = <<>>
    /\ textA = <<>>
    /\ textB = <<>>

\* the symbol whose set holds the frame types of added
SymbolOf(added) == NewAbstractSymbol(rPacketType, rHeader, Range(added))

\* frameTypes.Add(frameType) on the first symbol
AddA(frameType) ==
    /\ textA = <<>>
    /\ Len(addedA) < MaxAdds
    /\ addedA' = Append(addedA, frameType)
    /\ UNCHANGED <<rPacketType, rHeader, addedB, textA, textB>>
    /\ UNCHANGED notRender

\* frameTypes.Add(frameType) on the second symbol
AddB(frameType) ==
    /\ textB = <<>>
    /\ Len(addedB) < MaxAdds
    /\ addedB' = Append(addedB, frameType)
    /\ UNCHANGED <<rPacketType, rHeader, addedA, textA, textB>>
    /\ UNCHANGED notRender

\* String() of the first symbol, its set's ToSlice returning slice
StringA(slice) ==
    /\ textA = <<>>
    /\ slice \in Slices(Range(addedA))
    /\ textA' = <<AbstractSymbol_String(SymbolOf(addedA), slice)>>
    /\ UNCHANGED <<rPacketType, rHeader, addedA, addedB, textB>>
    /\ UNCHANGED notRender

\* String() of the second symbol, its set's ToSlice returning slice
StringB(slice) ==
    /\ textB = <<>>
    /\ slice \in Slices(Range(addedB))
    /\ textB' = <<AbstractSymbol_String(SymbolOf(addedB), slice)>>
    /\ UNCHANGED <<rPacketType, rHeader, addedA, addedB, textA>>
    /\ UNCHANGED notRender

AllSlices == UNION {Slices(f) : f \in SUBSET AlphabetFrameTypes}

RenderNext ==
    \/ \E frameType \in AlphabetFrameTypes : AddA(frameType)
    \/ \E frameType \in AlphabetFrameTypes : AddB(frameType)
    \/ \E slice \in AllSlices : StringA(slice)
    \/ \E slice \in AllSlices : StringB(slice)

(***************************************************************************)
(* An AbstractSet's life.                                                  *)
(*   newSet: the result of NewAbstractSet(), once called (<<>> before);    *)
(*   aset: the AbstractSet at hand, once made; asetText: the result of     *)
(*   its String(), once called.                                            *)
(***************************************************************************)

\* the symbols the sets and pairs of the model are made of
SetSymbols ==
    {s \in Symbols :
        /\ s.packetType \in {"Initial", "ShortHeaderPacket"}
        /\ s.headerOptions.QUICVersion # <<<<0, 1>>>>
        /\ s.frameTypes \in {{}, {"AckType"}, {"AckType", "CryptoType"}}}

\* the orders ToSlice may take, one per set of frame types
Orders ==
    {o \in [{s.frameTypes : s \in SetSymbols} -> AllSlices] :
        \A f \in DOMAIN o : o[f] \in Slices(f)}

SetInit ==
    /\ newSet = <<>>
    /\ aset = <<>>
    /\ asetText = <<>>

\* NewAbstractSet()
CallNewAbstractSet ==
    /\ newSet = <<>>
    /\ newSet' = <<NewAbstractSet>>
    /\ UNCHANGED <<aset, asetText>>
    /\ UNCHANGED notSet

\* a set of the given members comes to be
MakeSet(members) ==
    /\ aset = <<>>
    /\ Cardinality(members) <= MaxMembers
    /\ aset' = <<AbstractSetOf(members)>>
    /\ UNCHANGED <<newSet, asetText>>
    /\ UNCHANGED notSet

\* aset.String()
CallSetString(order) ==
    /\ aset # <<>>
    /\ asetText = <<>>
    /\ asetText' = <<AbstractSet_String(aset[1], order)>>
    /\ UNCHANGED <<newSet, aset>>
    /\ UNCHANGED notSet

SetNext ==
    \/ CallNewAbstractSet
    \/ \E members \in SUBSET SetSymbols : MakeSet(members)
    \/ \E order \in Orders : CallSetString(order)

(***************************************************************************)
(* An AbstractConcreteMap's life.                                          *)
(*   acm: the map, from the text of a key to a concrete pair; inserts:     *)
(*   the AddIOs calls made; lastInsert: the arguments of the last one      *)
(*   (<<>> before the first); mpc: "run", or "panic" once a call panicked. *)
(***************************************************************************)

MapSymbols ==
    {s \in SetSymbols : s.packetType = "Initial" /\ s.frameTypes # {}
                        /\ s.headerOptions.QUICVersion # <<>>}

\* the abstract input sequences and output sequences of the model
InputSeqs == UNION {[1..n -> MapSymbols] : n \in 0..MaxTrace}

OutputSets == {AbstractSetOf(members) : members \in {{}} \cup {{s} : s \in MapSymbols}}

OutputSeqs == UNION {[1..n -> OutputSets] : n \in 0..MaxTrace}

\* the concrete sequences, opaque to the map
ConcreteInputs == {"packets-1", "packets-2"}

ConcreteOutputs == {"responses-1", "responses-2"}

MapInit ==
    /\ acm = NewAbstractConcreteMap
    /\ inserts = 0
    /\ lastInsert = <<>>
    /\ mpc = "run"

\* acm.AddIOs(abstractInputs, abstractOutputs, concreteInputs, concreteOutputs)
CallAddIOs(abstractInputs, abstractOutputs, concreteInputs, concreteOutputs, order) ==
    /\ mpc = "run"
    /\ inserts < MaxInserts
    /\ LET res == AddIOs(acm, abstractInputs, abstractOutputs, concreteInputs,
                         concreteOutputs, order)
       IN /\ acm' = res.acm
          /\ mpc' = IF res.kind = "panic" THEN "panic" ELSE "run"
    /\ inserts' = inserts + 1
    /\ lastInsert' = <<[abstractOP |-> [abstractInputs |-> abstractInputs,
                                        abstractOutputs |-> abstractOutputs],
                        concreteOP |-> [concreteInputs |-> concreteInputs,
                                        concreteOutputs |-> concreteOutputs]]>>
    /\ UNCHANGED notMap

MapNext ==
    \E abstractInputs \in InputSeqs, abstractOutputs \in OutputSeqs,
       concreteInputs \in ConcreteInputs, concreteOutputs \in ConcreteOutputs,
       order \in Orders :
        CallAddIOs(abstractInputs, abstractOutputs, concreteInputs, concreteOutputs,
                   order)

(***************************************************************************)
(* Specifications: one per component, the other components at rest.       *)
(***************************************************************************)
Idle == CodecInit /\ StreamInit /\ SymbolInit /\ RenderIdle /\ SetInit /\ MapInit

SpecCodec == Idle /\ [][CodecNext]_vars

SpecStream == Idle /\ [][StreamNext]_vars

SpecSymbol == Idle /\ [][SymbolNext]_vars

RenderStart ==
    CodecInit /\ StreamInit /\ SymbolInit /\ RenderInit /\ SetInit /\ MapInit

SpecRender == RenderStart /\ [][RenderNext]_vars

SpecSet == Idle /\ [][SetNext]_vars

SpecMap == Idle /\ [][MapNext]_vars

(***************************************************************************)
(* Claims about the frame codec, checked under SpecCodec.                  *)
(***************************************************************************)
\* the packet holds exactly the encodings of the frames written to it
Intact == packet = Encode(sent)

\* C1: decoding the bytes produced by encoding a frame f yields a frame
\* equal to f, for every variant and every field
C1_RoundTrip ==
    (Len(sent) = 1 /\ Intact /\ Len(recv) >= 1)
        => (recv[1].kind = "frame" /\ recv[1].frame = sent[1])

\* a ResetStream frame (streamId 4, errorCode 7, finalOffset 300) was
\* encoded and decoded back unchanged
C1_ResetStreamRoundTrips ==
    /\ sent = <<[type |-> "ResetStream", streamId |-> 4, errorCode |-> 7,
                 finalOffset |-> 300]>>
    /\ Intact
    /\ Len(recv) >= 1
    /\ recv[1].kind = "frame"
    /\ recv[1].frame = sent[1]

\* the variant the table of tags assigns to a tag byte
VariantOfTag ==
    <<"Padding", "ResetStream", "ConnectionClose", "ApplicationClose", "MaxData",
      "MaxStreamData", "MaxStreamId", "Ping", "Blocked", "StreamBlocked",
      "StreamIdBlocked", "NewConnectionId", "StopSending", "Pong", "Ack">>

\* C2: for every leading tag byte b, the decoder selects the variant the
\* table assigns to b when b is in 0x00-0x0e or in 0x10-0x1f (Stream), and
\* reports the unknown-type error for every other b
C2_Dispatch ==
    (Len(recv) >= 1 /\ packet # <<>>)
        => LET b == packet[1]
           IN IF b \in 0..14
              THEN recv[1].kind = "frame" /\ recv[1].frame.type = VariantOfTag[b + 1]
              ELSE IF b \in 16..31
              THEN recv[1].kind = "frame" /\ recv[1].frame.type = "Stream"
              ELSE recv[1].kind = "panic"

\* the tag bytes 0x0f and 0x20 were reported as unknown frame types
C2_UnknownTagPanics ==
    /\ Len(recv) = 1
    /\ packet \in {<<15>>, <<32>>}
    /\ recv[1].kind = "panic"

\* C5: a decode returns nil exactly when the source is exhausted before the
\* first byte of the frame, and a decode of a packet cut short never returns
\* a frame for which a field could not be read
C5_TruncationReported ==
    \A k \in 1..Len(recv) :
        /\ recv[k].kind = "nil" <=> recv[k].from = Len(packet)
        /\ (~Intact /\ recv[k].kind = "frame") => ~recv[k].lost

\* a decode at the end of a packet of one frame returned nil
C5_NilAtFrameBoundary ==
    /\ Len(sent) = 1
    /\ Intact
    /\ Len(recv) = 2
    /\ recv[1].kind = "frame"
    /\ recv[2].kind = "nil"

\* the first byte the serializer of a frame is to write
TagOf(frame) ==
    IF frame.type = "Stream"
    THEN FrameType(frame) + (IF frame.finBit THEN 1 ELSE 0)
             + (IF frame.lenBit THEN 2 ELSE 0) + (IF frame.offBit THEN 4 ELSE 0)
    ELSE FrameType(frame)

\* C6: the first byte written by a frame's serializer is the frame's own
\* FrameType tag (for Stream, 0x10 with the FIN/LEN/OFF flags in the low bits)
C6_TagFirst ==
    Intact =>
        \A k \in 1..Len(sent) :
            packet[Len(Encode(SubSeq(sent, 1, k - 1))) + 1] = TagOf(sent[k])

\* a Stream frame with FIN, LEN and OFF set was written with first byte 0x17
C6_StreamTagWritten ==
    /\ Len(sent) = 1
    /\ Intact
    /\ sent[1].type = "Stream"
    /\ sent[1].finBit /\ sent[1].lenBit /\ sent[1].offBit
    /\ packet[1] = 23

\* the offset in the packet at which the encoding of frame k starts
StartOf(k) == Len(Encode(SubSeq(sent, 1, k - 1)))

\* a frame that delimits itself: a Stream frame with LEN set or a frame of
\* any other variant
SelfDelimited(frame) == frame.type = "Stream" => frame.lenBit

\* C11: each decode consumes exactly the bytes of one frame's encoding and
\* leaves the cursor at the first byte of the next frame: decoding a packet
\* of self-delimited frames f1..fn over and over returns f1, ..., fn in
\* order, a Stream frame with its length payload bytes, and then nil
C11_OneFramePerDecode ==
    (Intact /\ \A j \in 1..Len(sent) : SelfDelimited(sent[j])) =>
        \A k \in 1..Len(recv) :
            /\ k <= Len(sent) + 1
            /\ recv[k].from = StartOf(k)
            /\ k <= Len(sent) =>
                   /\ recv[k].kind = "frame"
                   /\ recv[k].frame = sent[k]
                   /\ recv[k].r.i = StartOf(k + 1)
            /\ k = Len(sent) + 1 => recv[k].kind = "nil"

\* a ResetStream frame and a Blocked frame written back to back were
\* decoded in order, each from its first byte, and the third decode
\* returned nil
C11_TwoFramesThenNil ==
    /\ sent = <<[type |-> "ResetStream", streamId |-> 4, errorCode |-> 7,
                 finalOffset |-> 300],
                [type |-> "Blocked", offset |-> 16384]>>
    /\ Intact
    /\ Len(recv) = 3
    /\ recv[1].kind = "frame" /\ recv[1].frame = sent[1]
    /\ recv[2].kind = "frame" /\ recv[2].frame = sent[2]
    /\ recv[2].from = StartOf(2)
    /\ recv[3].kind = "nil"
    /\ recv[3].from = Len(packet)

(***************************************************************************)
(* Claims about NewStreamFrame, checked under SpecStream.                  *)
(***************************************************************************)
\* C7: each NewStreamFrame call returns a frame with LEN set, the length of
\* its payload, the offset the stream's write cursor had before the call and
\* OFF set iff that cursor was not zero, and leaves the cursor advanced by
\* the payload's length; so the cursor is the sum of the lengths of all
\* payloads so far and consecutive frames cover contiguous byte ranges
C7_StreamFrameCursor ==
    /\ stream.writeOffset = total
    /\ last # <<>> =>
        LET c == last[1]
        IN /\ c.frame.lenBit
           /\ c.frame.length = Len(c.data)
           /\ c.frame.streamData = c.data
           /\ c.frame.offset = c.before
           /\ c.frame.offBit <=> c.before # 0
           /\ stream.writeOffset = c.before + Len(c.data)
    /\ (last # <<>> /\ prev # <<>>) =>
        prev[1].frame.offset + prev[1].frame.length = last[1].frame.offset
    /\ (last # <<>> /\ prev = <<>>) => last[1].frame.offset = 0

\* two calls with non-empty payloads were made: the second frame has OFF set
\* and starts where the first ended
C7_SecondFrameFollows ==
    /\ calls >= 2
    /\ prev # <<>>
    /\ Len(prev[1].data) > 0
    /\ Len(last[1].data) > 0
    /\ last[1].frame.offBit
    /\ last[1].frame.offset = prev[1].frame.offset + Len(prev[1].data)

(***************************************************************************)
(* Claims about AbstractSymbol's text, checked under SpecSymbol (C4, C8)   *)
(* and SpecRender (C9).                                                    *)
(***************************************************************************)
\* C4: parsing the canonical text of a symbol yields a symbol equal in
\* content (packet type, version or its absence, frame-type set), for
\* every packet type, with or without a version and for every set of frame
\* types, the empty one included; rendering the parsed symbol reproduces
\* the text
C4_ParseInvertsString ==
    /\ (origin = "rendered" /\ parsed # <<>>)
           => (parsed[1].kind = "symbol" /\ parsed[1].symbol = sym[1])
    /\ (origin = "rendered" /\ again # <<>>) => again[1] = symText

\* INITIAL(0xff00001d)[ACK,CRYPTO] was parsed to packet type Initial,
\* version 0xff00001d and frame types {ACK, CRYPTO}, and rendered again to
\* the same text
C4_InitialExampleRoundTrips ==
    /\ origin = "rendered"
    /\ symText = <<"I", "N", "I", "T", "I", "A", "L", "(", "0", "x", "f", "f", "0", "0", "0", "0", "1", "d", ")", "[", "A", "C", "K", ",", "C", "R", "Y", "P", "T", "O", "]">>
    /\ parsed = <<[kind |-> "symbol",
                   symbol |-> [packetType |-> "Initial",
                               headerOptions |-> [QUICVersion |-> <<<<65280, 29>>>>],
                               frameTypes |-> {"AckType", "CryptoType"}]]>>
    /\ again = <<symText>>

\* the grammar PACKETTYPE(HEADER)[FRAMES] of a symbol's text: a packet-type
\* name of the vocabulary, an optional header segment that is empty or 0x
\* and up to eight hexadecimal digits, and a comma-separated, possibly
\* empty list of frame-type names
PacketTypeNames == {packetTypeToString[p] : p \in PacketTypes}

FrameTypeNames == {FrameType_String(f) : f \in AlphabetFrameTypes}

HeaderInGrammar(h) ==
    \/ h = <<>>
    \/ /\ Len(h) \in 3..10
       /\ SubSeq(h, 1, 2) = <<"0", "x">>
       /\ AllIn(Drop(h, 2), HexChars)

FramesInGrammar(list) ==
    \/ list = <<>>
    \/ LET names == Split(list, ",")
       IN \A k \in 1..Len(names) : names[k] \in FrameTypeNames

InGrammar(text) ==
    LET n == PrefixLen(text, UpperChars)
        rest == Drop(text, n)
        close == IF rest # <<>> /\ Head(rest) = "("
                 THEN PrefixLen(Tail(rest), DigitChars \cup LowerChars) + 2
                 ELSE 0
        list == Drop(rest, close)
    IN /\ SubSeq(text, 1, n) \in PacketTypeNames
       /\ close > 0 => (Len(rest) >= close /\ rest[close] = ")"
                        /\ HeaderInGrammar(SubSeq(rest, 2, close - 1)))
       /\ Len(list) >= 2
       /\ list[1] = "["
       /\ list[Len(list)] = "]"
       /\ FramesInGrammar(SubSeq(list, 2, Len(list) - 1))

\* C8: NewAbstractSymbolFromString applied to a text that does not match
\* the grammar reports a format error: it returns no symbol with a
\* defaulted packet type, version or frame set, and does not crash
C8_MalformedTextIsFormatError ==
    (parsed # <<>> /\ ~InGrammar(symText)) => parsed[1].kind = "FormatError"

\* a text with a packet-type name outside the vocabulary was parsed
C8_UnknownPacketTypeParsed ==
    /\ symText = <<"F", "O", "O", "(", "0", "x", "f", "f", "0", "0", "0", "0", "1", "d", ")", "[", "A", "C", "K", "]">>
    /\ ~InGrammar(symText)
    /\ parsed # <<>>

\* the frame-type names between the brackets of a symbol's text
NamesIn(text) ==
    LET open == PrefixLen(text, UpperChars \cup DigitChars \cup LowerChars \cup {"(", ")"})
        list == SubSeq(text, open + 2, Len(text) - 1)
    IN IF list = <<>> THEN <<>> ELSE Split(list, ",")

Sorted(texts) == \A k \in 1..(Len(texts) - 1) : TextLess(texts[k], texts[k + 1])

\* C9: the text of a symbol depends only on its packet type, its header and
\* the content of its frame-type set: two symbols of one packet type and
\* header whose sets hold the same frame types, added in any order and with
\* duplicates, render to the same text, and the frame-type names of a text
\* are in lexicographic order
C9_StringIgnoresOrder ==
    /\ (textA # <<>> /\ textB # <<>> /\ Range(addedA) = Range(addedB))
           => textA = textB
    /\ textA # <<>> =>
           /\ Sorted(NamesIn(textA[1]))
           /\ Range(NamesIn(textA[1])) = {FrameType_String(f) : f \in Range(addedA)}
    /\ textB # <<>> =>
           /\ Sorted(NamesIn(textB[1]))
           /\ Range(NamesIn(textB[1])) = {FrameType_String(f) : f \in Range(addedB)}

\* a symbol built by adding ACK, ACK, CRYPTO and one built by adding
\* CRYPTO, ACK were both rendered, to ...[ACK,CRYPTO]
C9_DuplicatesAndOrderRendered ==
    /\ addedA = <<"AckType", "AckType", "CryptoType">>
    /\ addedB = <<"CryptoType", "AckType">>
    /\ textA # <<>>
    /\ textB # <<>>
    /\ NamesIn(textA[1]) = <<<<"A", "C", "K">>, <<"C", "R", "Y", "P", "T", "O">>>>
    /\ NamesIn(textB[1]) = <<<<"A", "C", "K">>, <<"C", "R", "Y", "P", "T", "O">>>>

(***************************************************************************)
(* Claims about AbstractSet (C10, under SpecSet) and AbstractConcreteMap   *)
(* (C3, under SpecMap).                                                    *)
(***************************************************************************)
\* the elements of a set in one of the orders ToSlice may take
SomeSlice(set) == CHOOSE p \in Slices(set) : TRUE

\* the canonical text of a set of symbols: [] for the empty set, else the
\* members' texts in lexicographic order, separated by commas, in brackets
CanonicalSetText(members) ==
    LET slice == SomeSlice(members)
        texts == [k \in 1..Len(slice) |->
                     AbstractSymbol_String(slice[k], SomeSlice(slice[k].frameTypes))]
    IN <<"[">> \o Join(SortStrings(texts), <<",">>) \o <<"]">>

\* C10: NewAbstractSet succeeds, and String returns [] for the empty set
\* and, for a set of one or more symbols, [s1,s2,...] with the members'
\* canonical texts in lexicographic order
C10_SetStringCanonical ==
    /\ newSet # <<>> => newSet[1].kind = "set"
    /\ asetText # <<>> =>
           asetText[1] = [kind |-> "text", text |-> CanonicalSetText(aset[1].Set)]

\* String of an empty AbstractSet returned []
C10_EmptySetRendered ==
    /\ aset = <<AbstractSetOf({})>>
    /\ asetText = <<[kind |-> "text", text |-> <<"[", "]">>]>>

\* C3: after an insert, a lookup of an abstract pair with the same
\* canonical text returns exactly the concrete pair of that insert, the
\* most recent one for that text
C3_LookupReturnsLastInsert ==
    lastInsert # <<>> =>
        \A order \in Orders :
            Lookup(acm, lastInsert[1].abstractOP, order)
                = [kind |-> "found", value |-> lastInsert[1].concreteOP]

\* two inserts under one key were made and a lookup returns the concrete
\* pair of the second
C3_SecondInsertOverwrites ==
    /\ inserts = 2
    /\ mpc = "run"
    /\ Cardinality(DOMAIN acm) = 1
    /\ Len(lastInsert[1].abstractOP.abstractInputs) = 1
    /\ \A order \in Orders :
           Lookup(acm, lastInsert[1].abstractOP, order)
               = [kind |-> "found", value |-> lastInsert[1].concreteOP]

====
